---- MODULE Spec2Model ----
(***************************************************************************)
(* State-machine model of browser-test/dcTestServer.cpp: the single-session *)
(* WebRTC data-channel test server.  The session object (TestSession), the  *)
(* HTTP handlers (/offer, /reset, /results), the callbacks the native       *)
(* transport invokes on its own threads, and the statistics ledger          *)
(* (std::vector<ChannelStats> guarded by statsMutex inside                  *)
(* findOrCreateStats only).                                                 *)
(*                                                                         *)
(* Granularity.  A handler or callback is cut at the points where another   *)
(* thread can observe or change what it works on: handleOffer at each       *)
(* native call of the handshake, a callback at each unsynchronised access   *)
(* to the ChannelStats entry it obtained from findOrCreateStats (the mutex  *)
(* is released when findOrCreateStats returns).  handleReset and            *)
(* handleResults do not block and are one step each.                        *)
(***************************************************************************)
EXTENDS Integers, Sequences, FiniteSets, TLC

VARIABLES
    pPeerConnection,     \* TestSession::pPeerConnection (NULL or a pc id)
    connectionState,     \* TestSession::connectionState
    iceGatheringDone,    \* TestSession::iceGatheringDone (atomic<bool>)
    serverChannels,      \* TestSession::serverChannels[MAX_TEST_CHANNELS]
    serverChannelCount,  \* TestSession::serverChannelCount
    currentTest,         \* TestSession::currentTest
    channelStats,        \* TestSession::channelStats (the live elements)
    statsCap,            \* capacity of the vector's current buffer
    pcs,                 \* native side: every peer connection created so far
    channels,            \* native side: data channels of live peer connections
    http,                \* per HTTP thread: position, locals, last response
    native,              \* per native thread: position and locals of a callback
    nReq,                \* HTTP requests accepted so far
    nCb                  \* data-channel callbacks started so far

vars == <<pPeerConnection, connectionState, iceGatheringDone, serverChannels,
          serverChannelCount, currentTest, channelStats, statsCap, pcs,
          channels, http, native, nReq, nCb>>

session == <<pPeerConnection, connectionState, iceGatheringDone, serverChannels,
             serverChannelCount, currentTest, channelStats, statsCap>>

----------------------------------------------------------------------------
(* Bounds of the exploration *)

MaxRequests == 2
MaxCallbacks == 2

(* Program constants *)

NULL == 0
MAX_TEST_CHANNELS == 16
BURST_MESSAGES == 50
BURST_PAUSE_EVERY == 10
MULTI_CHANNELS == 5
BURST_TRIGGER_LEN == 5
GREETING_LEN == 17
PATTERN_LEN == 1024

HttpThreads == {"h1", "h2"}
SerialThreads == {"h1"}
NativeThreads == {1, 2}
PcIds == {1, 2, 3}

(* Inputs *)

NoParam == "<none>"
TestParams == {NoParam, "server-creates-dc", "burst"}
ParseOutcomes == {"ok", "nomem", "badsdp"}
RemoteNames == {"browser-dc"}
MsgLens == {0, 5}
MsgKinds == BOOLEAN
\* The messages received: an empty text message and a binary one of 5 bytes.
Messages == {m \in [len : MsgLens, isBinary : MsgKinds] : m.isBinary = (m.len > 0)}
NewStates == {"CONNECTED"}
\* The statuses of the 50 sends of one burst: all succeed, or the
\* odd-numbered ones fail.
BurstPlans == {"ok", "odd"}

----------------------------------------------------------------------------
(* Records *)

NoResponse == [status |-> 0, body |-> ""]

NoSnapshot == <<>>

\* parse: what became of the request body (ParseOutcomes), "" if not read.
\* busy: the handle was non-empty when the request came in.
\* at: the position the handler responded from.
\* before: the session and the native side as a request answered on entry
\*         found them.
\* afterReset: the request this thread served before was a /reset.
\* failed: the createChannel requests of this offer whose createDataChannel
\*         returned a failure status.
IdleHttp == [pc |-> "idle", op |-> "", parse |-> "", busy |-> FALSE,
             testName |-> "", timedOut |-> FALSE, mypc |-> NULL,
             res |-> NoResponse, at |-> "", before |-> NoSnapshot,
             afterReset |-> FALSE, failed |-> {}]

NoPtr == [cap |-> 0, idx |-> 0]

NoOut == [label |-> "", n |-> 0]

\* The arguments of a dataChannelSend: isBinary, the buffer, the length.
NoArgs == [isBinary |-> FALSE, buf |-> "", len |-> 0]

\* len, binary: messageLen and isBinary of the message a callback was given.
\* out: what the callback has sent so far; args: how it called its send;
\* acked: how many of its dataChannelSend calls have returned success.
IdleNative == [pc |-> "idle", cb |-> "", chan |-> "", cpc |-> NULL, len |-> 0,
               binary |-> FALSE, ptr |-> NoPtr, tmp |-> 0, i |-> 0, plan |-> "",
               out |-> NoOut, args |-> NoArgs, acked |-> 0]

NewPc == [live |-> TRUE, gathering |-> FALSE, answered |-> FALSE,
          nullFired |-> FALSE]

NoPc == [live |-> FALSE, gathering |-> FALSE, answered |-> FALSE,
         nullFired |-> FALSE]

(* RtcDataChannelInit as configureForTest fills it; a NULL pInit is NoInit. *)
EMPTY == -1
NoInit == [ordered |-> TRUE, maxRetransmits |-> EMPTY, maxPacketLifeTime |-> EMPTY]

\* A handler that has set its response, or a callback that has done its last
\* step, returns before any other thread takes a step: the return touches
\* nothing but the thread itself.
Returning == \/ \E t \in NativeThreads : native[t].pc = "ret"
             \/ \E h \in HttpThreads : http[h].pc = "responded"

\* Thread h is at position pos of its handler; callback thread t likewise.
At(h, pos) == ~Returning /\ http[h].pc = pos

In(t, pos) == ~Returning /\ native[t].pc = pos

Init ==
    /\ pPeerConnection = NULL
    /\ connectionState = "NONE"
    /\ iceGatheringDone = FALSE
    /\ serverChannels = [k \in 0..(MAX_TEST_CHANNELS - 1) |-> ""]
    /\ serverChannelCount = 0
    /\ currentTest = ""
    /\ channelStats = <<>>
    /\ statsCap = 0
    /\ pcs = [p \in PcIds |-> NoPc]
    /\ channels = {}
    /\ http = [h \in HttpThreads |-> IdleHttp]
    /\ native = [t \in NativeThreads |-> IdleNative]
    /\ nReq = 0
    /\ nCb = 0

----------------------------------------------------------------------------
(* The native transport, as the handlers use it *)

LivePcs == {p \in PcIds : pcs[p].live}

\* A native call on the handle can succeed only on a live peer connection.
Usable(p) == p \in LivePcs

\* The handle createPeerConnection returns: storage that is not in use.
FreshPc == CHOOSE p \in PcIds \ LivePcs : \A q \in PcIds \ LivePcs : p <= q

\* freePeerConnection(&session->pPeerConnection): releases the peer
\* connection the handle names, with its data channels, and empties the handle.
FreedPcs(p) == IF p = NULL THEN pcs ELSE [pcs EXCEPT ![p] = NoPc]

FreedChannels(p) == {c \in channels : c.pc # p}

----------------------------------------------------------------------------
(* configureForTest *)

Chan(name, init) == [name |-> name, init |-> init]

SrvNameUnformatted(i) == "srv-0"

\* snprintf(name, sizeof(name), "srv-%d", i)
SrvName(i) == CASE i = 0 -> "srv-0" [] i = 1 -> "srv-1" [] i = 2 -> "srv-2"
                [] i = 3 -> "srv-3" [] OTHER -> "srv-4"

ScenarioChannelsAnyName(testName) == <<Chan("server-channel", NoInit)>>

\* The createChannel requests of a scenario, in the order they are made.
ScenarioChannels(testName) ==
    CASE testName = "server-creates-dc" -> <<Chan("server-channel", NoInit)>>
      [] testName = "server-creates-unordered" ->
            <<Chan("unordered-srv", [ordered |-> FALSE, maxRetransmits |-> EMPTY,
                                     maxPacketLifeTime |-> EMPTY])>>
      [] testName = "server-creates-maxretransmits" ->
            <<Chan("maxretransmit-srv", [ordered |-> TRUE, maxRetransmits |-> 3,
                                         maxPacketLifeTime |-> EMPTY])>>
      [] testName = "server-creates-maxlifetime" ->
            <<Chan("maxlifetime-srv", [ordered |-> TRUE, maxRetransmits |-> EMPTY,
                                       maxPacketLifeTime |-> 1000])>>
      [] testName = "server-creates-multi" ->
            [k \in 1..MULTI_CHANNELS |-> Chan(SrvName(k - 1), NoInit)]
      [] testName = "bidirectional" -> <<Chan("server-ch", NoInit)>>
      [] testName = "server-sends-binary" -> <<Chan("binary-srv", NoInit)>>
      [] testName = "burst" -> <<Chan("burst-srv", NoInit)>>
      [] OTHER -> <<>>

\* The message callback createChannel binds to every server-created channel.
ServerChannelOnMessage == "echo"

RECURSIVE CreateChannelsUnchecked(_, _, _, _, _)
CreateChannelsUnchecked(reqs, fails, p, k, acc) ==
    IF k > Len(reqs) THEN acc
    ELSE IF k \in fails THEN CreateChannelsUnchecked(reqs, fails, p, k + 1, acc)
    ELSE CreateChannelsUnchecked(reqs, fails, p, k + 1,
            [count |-> acc.count + 1,
             slots |-> acc.slots,
             made  |-> acc.made \cup
                       {[pc |-> p, name |-> reqs[k].name, init |-> reqs[k].init,
                         onOpen |-> TRUE, onMessage |-> "echo",
                         isOpen |-> FALSE, remote |-> FALSE]}])

RECURSIVE CreateChannelsUntilFailure(_, _, _, _, _)
CreateChannelsUntilFailure(reqs, fails, p, k, acc) ==
    IF k > Len(reqs) \/ k \in fails THEN acc
    ELSE CreateChannelsUntilFailure(reqs, fails, p, k + 1,
            [count |-> acc.count + 1,
             slots |-> [acc.slots EXCEPT ![acc.count] = reqs[k].name],
             made  |-> acc.made \cup
                       {[pc |-> p, name |-> reqs[k].name, init |-> reqs[k].init,
                         onOpen |-> TRUE, onMessage |-> "echo",
                         isOpen |-> FALSE, remote |-> FALSE]}])

\* createChannel, applied to the requests k.. of reqs; `fails` are the
\* requests whose createDataChannel returns a failure status.
RECURSIVE CreateChannels(_, _, _, _, _)
CreateChannels(reqs, fails, p, k, acc) ==
    IF k > Len(reqs) THEN acc
    ELSE LET idx == acc.count IN
         IF idx >= MAX_TEST_CHANNELS \/ k \in fails
         THEN CreateChannels(reqs, fails, p, k + 1, acc)
         ELSE CreateChannels(reqs, fails, p, k + 1,
                [count |-> idx + 1,
                 slots |-> [acc.slots EXCEPT ![idx] = reqs[k].name],
                 made  |-> acc.made \cup
                           {[pc |-> p, name |-> reqs[k].name, init |-> reqs[k].init,
                             onOpen |-> TRUE, onMessage |-> ServerChannelOnMessage,
                             isOpen |-> FALSE, remote |-> FALSE]}])

ConfigureForTest(testName, fails) ==
    LET r == CreateChannels(ScenarioChannels(testName), fails, pPeerConnection, 1,
                            [count |-> 0, slots |-> serverChannels, made |-> {}])
    IN  /\ currentTest' = testName
        /\ serverChannelCount' = r.count
        /\ serverChannels' = r.slots
        /\ channels' = channels \cup r.made

----------------------------------------------------------------------------
(* HTTP handlers *)

\* res.set_content(...) and the return of the handler.
Respond(h, status, body) ==
    http' = [http EXCEPT ![h].pc = "responded", ![h].at = http[h].pc,
                         ![h].res = [status |-> status, body |-> body]]

\* A request enters its handler.
Accept(h, op) ==
    /\ At(h, "idle")
    /\ nReq < MaxRequests
    /\ nReq' = nReq + 1

Snapshot == <<session, pcs, channels>>

Entered(h, op) == [IdleHttp EXCEPT !.op = op, !.at = "entry",
                                   !.afterReset = http[h].afterReset]

\* The HTTP layer sends the response; the thread is free again.
HttpReturn(h) ==
    /\ http[h].pc = "responded"
    /\ http' = [http EXCEPT ![h] = [IdleHttp EXCEPT
                    !.afterReset = (http[h].op = "reset")]]
    /\ UNCHANGED <<session, pcs, channels, native, nReq, nCb>>

Goto(h, pos) == http' = [http EXCEPT ![h].pc = pos]

NeverConnected == FALSE

\* handleOffer's guard: only one session at a time.
AlreadyConnected == pPeerConnection # NULL

\* std::string testName = "echo"; replaced by the "test" parameter if given.
TestNameOf(param) == IF param = NoParam THEN "echo" ELSE param

EarlyStatusSkipsSdp(parse) ==
    IF AlreadyConnected THEN [status |-> 409, body |-> "Already connected"]
    ELSE IF parse = "nomem" THEN [status |-> 500, body |-> "Memory allocation failed"]
    ELSE NoResponse

\* What handleOffer answers before it touches the session, NoResponse if it
\* goes on.
EarlyStatus(parse) ==
    IF AlreadyConnected THEN [status |-> 409, body |-> "Already connected"]
    ELSE IF parse = "nomem" THEN [status |-> 500, body |-> "Memory allocation failed"]
    ELSE IF parse = "badsdp" THEN [status |-> 400, body |-> "Invalid SDP"]
    ELSE NoResponse

\* handleOffer, from its entry to the parsed offer.
OfferBegin(h, param, parse) ==
    /\ Accept(h, "offer")
    /\ http' = [http EXCEPT ![h] =
                  IF EarlyStatus(parse) # NoResponse
                  THEN [Entered(h, "offer") EXCEPT !.pc = "responded",
                          !.busy = pPeerConnection # NULL,
                          !.parse = IF pPeerConnection # NULL THEN "" ELSE parse,
                          !.before = Snapshot,
                          !.res = EarlyStatus(parse)]
                  ELSE [Entered(h, "offer") EXCEPT !.pc = "create", !.at = "",
                          !.busy = pPeerConnection # NULL,
                          !.parse = parse, !.testName = TestNameOf(param)]]
    /\ UNCHANGED <<session, pcs, channels, native, nCb>>

OfferCreateSkipsConfigure(h, ok) ==
    /\ At(h, "create")
    /\ ok => LivePcs # PcIds
    /\ IF ok
       THEN /\ pcs' = [pcs EXCEPT ![FreshPc] = NewPc]
            /\ pPeerConnection' = FreshPc
            /\ http' = [http EXCEPT ![h].pc = "remote", ![h].mypc = FreshPc]
       ELSE /\ Respond(h, 500, "Failed to create peer connection")
            /\ UNCHANGED <<pcs, pPeerConnection>>
    /\ UNCHANGED <<connectionState, iceGatheringDone, serverChannels,
                   serverChannelCount, currentTest, channelStats, statsCap,
                   channels, native, nReq, nCb>>

\* createPeerConnection and the registration of the three callbacks.
OfferCreate(h, ok) ==
    /\ At(h, "create")
    /\ ok => LivePcs # PcIds
    /\ IF ok
       THEN /\ pcs' = [pcs EXCEPT ![FreshPc] = NewPc]
            /\ pPeerConnection' = FreshPc
            /\ http' = [http EXCEPT ![h].pc = "configure", ![h].mypc = FreshPc]
       ELSE /\ Respond(h, 500, "Failed to create peer connection")
            /\ UNCHANGED <<pcs, pPeerConnection>>
    /\ UNCHANGED <<connectionState, iceGatheringDone, serverChannels,
                   serverChannelCount, currentTest, channelStats, statsCap,
                   channels, native, nReq, nCb>>

\* configureForTest(session, testName)
OfferConfigure(h, fails) ==
    /\ At(h, "configure")
    /\ fails \subseteq 1..Len(ScenarioChannels(http[h].testName))
    /\ ~Usable(pPeerConnection) => fails = 1..Len(ScenarioChannels(http[h].testName))
    /\ ConfigureForTest(http[h].testName, fails)
    /\ http' = [http EXCEPT ![h].pc = "remote", ![h].failed = fails]
    /\ UNCHANGED <<pPeerConnection, connectionState, iceGatheringDone,
                   channelStats, statsCap, pcs, native, nReq, nCb>>

AbortKeepsHandle(h, status, body) ==
    /\ Respond(h, status, body)
    /\ UNCHANGED <<pcs, channels, pPeerConnection>>

\* A failed handshake stage: the error response, then freePeerConnection.
AbortHandshake(h, status, body) ==
    /\ Respond(h, status, body)
    /\ pcs' = FreedPcs(pPeerConnection)
    /\ channels' = FreedChannels(pPeerConnection)
    /\ pPeerConnection' = NULL

OfferSetRemote(h, ok) ==
    /\ At(h, "remote")
    /\ ok => Usable(pPeerConnection)
    /\ IF ok
       THEN Goto(h, "local") /\ UNCHANGED <<pPeerConnection, pcs, channels>>
       ELSE AbortHandshake(h, 500, "Failed to set remote description")
    /\ UNCHANGED <<connectionState, iceGatheringDone, serverChannels,
                   serverChannelCount, currentTest, channelStats, statsCap,
                   native, nReq, nCb>>

\* setLocalDescription starts the ICE gathering of the peer connection.
OfferSetLocal(h, ok) ==
    /\ At(h, "local")
    /\ ok => Usable(pPeerConnection)
    /\ IF ok
       THEN /\ Goto(h, "wait")
            /\ pcs' = [pcs EXCEPT ![pPeerConnection].gathering = TRUE]
            /\ UNCHANGED <<pPeerConnection, channels>>
       ELSE AbortHandshake(h, 500, "Failed to set local description")
    /\ UNCHANGED <<connectionState, iceGatheringDone, serverChannels,
                   serverChannelCount, currentTest, channelStats, statsCap,
                   native, nReq, nCb>>

OfferWaitHasNoDeadline(h) ==
    /\ At(h, "wait")
    /\ FALSE
    /\ UNCHANGED vars

\* The polling loop ends because the flag is set ...
OfferWaitDone(h) ==
    /\ At(h, "wait")
    /\ iceGatheringDone
    /\ Goto(h, "waited")
    /\ UNCHANGED <<session, pcs, channels, native, nReq, nCb>>

\* ... or because GETTIME() reached the deadline with the flag still unset.
OfferWaitTimeout(h) ==
    /\ At(h, "wait")
    /\ ~iceGatheringDone
    /\ http' = [http EXCEPT ![h].pc = "waited", ![h].timedOut = TRUE]
    /\ UNCHANGED <<session, pcs, channels, native, nReq, nCb>>

\* The check of the flag after the loop.
OfferAfterWait(h) ==
    /\ At(h, "waited")
    /\ IF ~iceGatheringDone
       THEN AbortHandshake(h, 504, "ICE gathering timeout")
       ELSE /\ http' = [http EXCEPT ![h].pc = "answer", ![h].timedOut = FALSE]
            /\ UNCHANGED <<pPeerConnection, pcs, channels>>
    /\ UNCHANGED <<connectionState, iceGatheringDone, serverChannels,
                   serverChannelCount, currentTest, channelStats, statsCap,
                   native, nReq, nCb>>

OfferCreateAnswer(h, ok) ==
    /\ At(h, "answer")
    /\ ok => Usable(pPeerConnection)
    /\ IF ok
       THEN Goto(h, "serialize") /\ UNCHANGED <<pPeerConnection, pcs, channels>>
       ELSE AbortHandshake(h, 500, "Failed to create answer")
    /\ UNCHANGED <<connectionState, iceGatheringDone, serverChannels,
                   serverChannelCount, currentTest, channelStats, statsCap,
                   native, nReq, nCb>>

\* serializeSessionDescriptionInit and the 200 response; the remote peer can
\* connect once it holds the answer.
OfferSerialize(h, ok) ==
    /\ At(h, "serialize")
    /\ IF ok
       THEN /\ Respond(h, 200, "answer")
            /\ pcs' = IF Usable(pPeerConnection)
                      THEN [pcs EXCEPT ![pPeerConnection].answered = TRUE]
                      ELSE pcs
            /\ UNCHANGED <<pPeerConnection, channels>>
       ELSE AbortHandshake(h, 500, "Failed to serialize answer")
    /\ UNCHANGED <<connectionState, iceGatheringDone, serverChannels,
                   serverChannelCount, currentTest, channelStats, statsCap,
                   native, nReq, nCb>>

ResetKeepsIceFlag ==
    /\ pcs' = FreedPcs(pPeerConnection)
    /\ channels' = FreedChannels(pPeerConnection)
    /\ pPeerConnection' = NULL
    /\ UNCHANGED iceGatheringDone
    /\ connectionState' = "NONE"
    /\ currentTest' = ""
    /\ serverChannelCount' = 0
    /\ channelStats' = <<>>

\* handleReset's writes to the session; clear() keeps the vector's buffer.
ResetSession ==
    /\ pcs' = FreedPcs(pPeerConnection)
    /\ channels' = FreedChannels(pPeerConnection)
    /\ pPeerConnection' = NULL
    /\ iceGatheringDone' = FALSE
    /\ connectionState' = "NONE"
    /\ currentTest' = ""
    /\ serverChannelCount' = 0
    /\ channelStats' = <<>>

HandleReset(h) ==
    /\ Accept(h, "reset")
    /\ ResetSession
    /\ http' = [http EXCEPT ![h] = [Entered(h, "reset") EXCEPT !.pc = "responded",
                                    !.res = [status |-> 200, body |-> "ok"]]]
    /\ UNCHANGED <<serverChannels, statsCap, native, nCb>>

\* The body handleResults builds from the ledger, under statsMutex.
ResultsBody == [test |-> currentTest, channels |-> channelStats]

HandleResults(h) ==
    /\ Accept(h, "results")
    /\ http' = [http EXCEPT ![h] = [Entered(h, "results") EXCEPT !.pc = "responded",
                                    !.res = [status |-> 200, body |-> ResultsBody]]]
    /\ UNCHANGED <<session, pcs, channels, native, nCb>>

----------------------------------------------------------------------------
(* The statistics ledger *)

FindStatsMisses(name) == 0

\* The loop of findOrCreateStats: the index of the first entry named `name`,
\* 0 when there is none.
FindStats(name) ==
    IF \E k \in 1..Len(channelStats) : channelStats[k].name = name
    THEN CHOOSE k \in 1..Len(channelStats) :
            /\ channelStats[k].name = name
            /\ \A j \in 1..(k - 1) : channelStats[j].name # name
    ELSE 0

NewStats(name) == [name |-> name, messagesReceived |-> 0, messagesSent |-> 0,
                   bytesReceived |-> 0, opened |-> FALSE]

\* std::vector growth: push_back into a full buffer moves the elements to a
\* new buffer of twice the capacity.
GrownCap == IF Len(channelStats) < statsCap THEN statsCap
            ELSE IF statsCap = 0 THEN 1 ELSE 2 * statsCap

\* findOrCreateStats(session, name): the ledger after it and the pointer it
\* returns.  A ChannelStats* is the buffer it points into and the slot.
FindOrCreateStats(name) ==
    LET k == FindStats(name) IN
    IF k # 0
    THEN [stats |-> channelStats, cap |-> statsCap,
          ptr |-> [cap |-> statsCap, idx |-> k]]
    ELSE [stats |-> Append(channelStats, NewStats(name)), cap |-> GrownCap,
          ptr |-> [cap |-> GrownCap, idx |-> Len(channelStats) + 1]]

\* The pointer names a live element only while its buffer is the vector's
\* and its slot is within the vector's size.
Live(ptr) == ptr.cap = statsCap /\ ptr.idx \in 1..Len(channelStats)

\* Values a read through a dangling pointer may yield.
StaleValues == {0, 1}

\* (a read of a live element takes no such value: one choice stands for it)
Garbage(ptr) == IF Live(ptr) THEN {0} ELSE StaleValues

Load(ptr, f, g) == IF Live(ptr) THEN channelStats[ptr.idx][f] ELSE g

\* A write through a dangling pointer lands in memory that is no element of
\* the vector: the ledger does not see it.
Store(ptr, f, v) ==
    channelStats' = IF Live(ptr) THEN [channelStats EXCEPT ![ptr.idx][f] = v]
                    ELSE channelStats

----------------------------------------------------------------------------
(* Callbacks, on the native transport's threads.  A callback's step ends at  *)
(* a write to the entry or at a native call; the read that follows a write   *)
(* is taken with it.                                                         *)

IceDoneOnAnyCandidate(done, isNull) == TRUE

\* if (candidateJson == NULL) session->iceGatheringDone.store(true)
IceDone(done, isNull) == IF isNull THEN TRUE ELSE done

\* onIceCandidate: a NULL candidate reports the end of gathering.
OnIceCandidate(p, isNull) ==
    /\ ~Returning
    /\ p \in LivePcs
    /\ pcs[p].gathering
    /\ iceGatheringDone' = IceDone(iceGatheringDone, isNull)
    /\ pcs' = IF isNull THEN [pcs EXCEPT ![p].nullFired = TRUE] ELSE pcs
    /\ UNCHANGED <<pPeerConnection, connectionState, serverChannels,
                   serverChannelCount, currentTest, channelStats, statsCap,
                   channels, http, native, nReq, nCb>>

\* (the states reported here follow the delivery of the answer)
OnConnectionStateChange(p, newState) ==
    /\ ~Returning
    /\ p \in LivePcs
    /\ pcs[p].answered
    /\ connectionState' = newState
    /\ UNCHANGED <<pPeerConnection, iceGatheringDone, serverChannels,
                   serverChannelCount, currentTest, channelStats, statsCap,
                   pcs, channels, http, native, nReq, nCb>>

\* The remote peer reaches the data channels only with the answer in hand.
Connected(p) == p \in LivePcs /\ pcs[p].answered

\* The transport's threads are interchangeable: a callback runs on the
\* first one that is free.
FreeThread(t) ==
    /\ In(t, "idle")
    /\ \A u \in NativeThreads : native[u].pc = "idle" => t <= u

\* A callback is entered: up to the return of its findOrCreateStats call.
Begin(t, cb, c, len, bin, next, g) ==
    LET r == FindOrCreateStats(c.name) IN
    /\ FreeThread(t)
    /\ channelStats' = r.stats
    /\ statsCap' = r.cap
    /\ native' = [native EXCEPT ![t] = [IdleNative EXCEPT
                     !.pc = next, !.cb = cb, !.chan = c.name, !.cpc = c.pc,
                     !.len = len, !.binary = bin, !.ptr = r.ptr, !.tmp = g]]
    /\ UNCHANGED <<pPeerConnection, connectionState, iceGatheringDone,
                   serverChannels, serverChannelCount, currentTest, pcs,
                   http, nReq>>

\* A callback the transport may invoke any number of times is counted.
Enter(t, cb, c, len, bin, next, g) ==
    /\ nCb < MaxCallbacks
    /\ nCb' = nCb + 1
    /\ Begin(t, cb, c, len, bin, next, g)

\* The callback has done its last step; what it sent is kept until it returns.
Finished(t, out, args) == [native EXCEPT ![t] = [IdleNative EXCEPT
                        !.pc = "ret", !.cb = native[t].cb, !.chan = native[t].chan,
                        !.cpc = native[t].cpc, !.len = native[t].len,
                        !.binary = native[t].binary, !.out = out, !.args = args,
                        !.acked = native[t].acked]]

\* The remote peer opens a data channel: onDataChannel is invoked.
OnDataChannel(t, p, name) ==
    /\ Connected(p)
    /\ ~\E c \in channels : c.pc = p /\ c.name = name
    /\ LET c == [pc |-> p, name |-> name, init |-> NoInit, onOpen |-> FALSE,
                 onMessage |-> "none", isOpen |-> TRUE, remote |-> TRUE]
       IN  /\ Enter(t, "datachannel", c, 0, FALSE, "wrOpenedDc", 0)
           /\ channels' = channels \cup {c}

\* ... stats->opened = true, and the echo handler bound to the channel.
OnDataChannelMark(t) ==
    /\ In(t, "wrOpenedDc")
    /\ Store(native[t].ptr, "opened", TRUE)
    /\ channels' = {IF c.pc = native[t].cpc /\ c.name = native[t].chan
                    THEN [c EXCEPT !.onMessage = "echo"] ELSE c : c \in channels}
    /\ native' = Finished(t, NoOut, NoArgs)
    /\ UNCHANGED <<pPeerConnection, connectionState, iceGatheringDone,
                   serverChannels, serverChannelCount, currentTest, statsCap,
                   pcs, http, nReq, nCb>>

Frame == UNCHANGED <<pPeerConnection, connectionState, iceGatheringDone,
                     serverChannels, serverChannelCount, currentTest, statsCap,
                     pcs, channels, http, nReq, nCb>>

\* A message arrives on a channel with the echo handler bound:
\* onDataChannelMessageEcho up to the read of stats->messagesReceived++.
OnDataChannelMessageEcho(t, len, isBinary) ==
    \E c \in channels :
        /\ Connected(c.pc)
        /\ c.isOpen
        /\ c.onMessage = "echo"
        /\ LET r == FindOrCreateStats(c.name)
           IN  Enter(t, "echo", c, len, isBinary, "wrRecv",
                     r.stats[r.ptr.idx].messagesReceived)
        /\ UNCHANGED channels

\* The write of messagesReceived++, and the read of bytesReceived += messageLen
EchoWriteReceived(t, g) ==
    /\ In(t, "wrRecv")
    /\ g \in Garbage(native[t].ptr)
    /\ Store(native[t].ptr, "messagesReceived", native[t].tmp + 1)
    /\ native' = [native EXCEPT ![t].pc = "wrBytes",
                     ![t].tmp = Load(native[t].ptr, "bytesReceived", g)]
    /\ Frame

\* The echo's send: the flag and the length it was given, and the dummy byte
\* in place of the payload of an empty message.
EchoSendArgs(isBinary, len) ==
    [isBinary |-> isBinary, buf |-> IF len = 0 THEN "dummy" ELSE "pMessage",
     len |-> len]

\* The write of bytesReceived, dataChannelSend of the payload received, and on
\* success the read of stats->messagesSent++
EchoSend(t, ok, g) ==
    /\ In(t, "wrBytes")
    /\ g \in Garbage(native[t].ptr)
    /\ Store(native[t].ptr, "bytesReceived", native[t].tmp + native[t].len)
    /\ native' = IF ok
                 THEN [native EXCEPT ![t].pc = "wrSent",
                          ![t].out = [label |-> "echo", n |-> 1],
                          ![t].acked = 1,
                          ![t].args = EchoSendArgs(native[t].binary, native[t].len),
                          ![t].tmp = Load(native[t].ptr, "messagesSent", g)]
                 ELSE Finished(t, [label |-> "echo", n |-> 1],
                               EchoSendArgs(native[t].binary, native[t].len))
    /\ Frame

\* The write of messagesSent++ (echo, greeting and binary pattern alike).
WriteSent(t) ==
    /\ In(t, "wrSent")
    /\ Store(native[t].ptr, "messagesSent", native[t].tmp + 1)
    /\ native' = Finished(t, native[t].out, native[t].args)
    /\ Frame

\* A server-created channel opens: onServerChannelOpen up to stats->opened.
ChannelOpens(c) ==
    /\ Connected(c.pc)
    /\ c.onOpen /\ ~c.isOpen
    /\ channels' = (channels \ {c}) \cup {[c EXCEPT !.isOpen = TRUE]}

OnServerChannelOpen(t) ==
    \E c \in channels :
        ChannelOpens(c) /\ Enter(t, "open", c, 0, FALSE, "wrOpened", 0)

\* The same callback, not counted: a channel opens once, so the opens of a
\* session are bounded by its server channels.
OnServerChannelOpenEach(t) ==
    \E c \in channels :
        /\ ChannelOpens(c)
        /\ Begin(t, "open", c, 0, FALSE, "wrOpened", 0)
        /\ UNCHANGED nCb

ServerOpenGreetsAlways(t, plan, ok, g) ==
    /\ In(t, "wrOpened")
    /\ g \in Garbage(native[t].ptr)
    /\ Store(native[t].ptr, "opened", TRUE)
    /\ native' = [native EXCEPT ![t].pc = "wrSent",
                     ![t].out = [label |-> "hello from server", n |-> 1],
                     ![t].acked = IF ok THEN 1 ELSE 0,
                     ![t].args = [isBinary |-> FALSE, buf |-> "msg",
                                  len |-> GREETING_LEN],
                     ![t].tmp = Load(native[t].ptr, "messagesSent", g)]
    /\ UNCHANGED <<pPeerConnection, connectionState, iceGatheringDone,
                   serverChannels, serverChannelCount, currentTest, statsCap,
                   pcs, channels, http, nReq, nCb>>

\* stats->opened = true, then the scenario's sends.  The status `ok` of the
\* greeting and of the binary pattern is not looked at.
ServerOpenMark(t, plan, ok, g) ==
    /\ In(t, "wrOpened")
    /\ g \in Garbage(native[t].ptr)
    /\ Store(native[t].ptr, "opened", TRUE)
    /\ native' =
         IF currentTest = "server-creates-dc"
         THEN [native EXCEPT ![t].pc = "wrSent",
                  ![t].out = [label |-> "hello from server", n |-> 1],
                  ![t].acked = IF ok THEN 1 ELSE 0,
                  ![t].args = [isBinary |-> FALSE, buf |-> "msg",
                               len |-> GREETING_LEN],
                  ![t].tmp = Load(native[t].ptr, "messagesSent", g)]
         ELSE IF currentTest = "server-sends-binary"
         THEN [native EXCEPT ![t].pc = "wrSent",
                  ![t].out = [label |-> "pattern-1024", n |-> 1],
                  ![t].acked = IF ok THEN 1 ELSE 0,
                  ![t].args = [isBinary |-> TRUE, buf |-> "pattern",
                               len |-> PATTERN_LEN],
                  ![t].tmp = Load(native[t].ptr, "messagesSent", g)]
         ELSE IF currentTest = "burst"
         THEN [native EXCEPT ![t].pc = "burst", ![t].i = 0, ![t].plan = plan]
         ELSE Finished(t, NoOut, NoArgs)
    /\ Frame

\* Whether the i-th send of a burst fails under the plan.
SendFails(plan, i) == plan = "fail" \/ (plan = "odd" /\ i % 2 = 1)

ChunkEndAtEveryTenth(i) ==
    IF i + 9 - (i % BURST_PAUSE_EVERY) >= BURST_MESSAGES - 1
    THEN BURST_MESSAGES - 1
    ELSE i + 9 - (i % BURST_PAUSE_EVERY)

\* The burst loop runs from i to the iteration that sleeps (i > 0 and
\* i % 10 = 0) or to its last iteration.
RECURSIVE ChunkEnd(_)
ChunkEnd(i) ==
    IF i + 1 >= BURST_MESSAGES \/ (i > 0 /\ i % BURST_PAUSE_EVERY = 0) THEN i
    ELSE ChunkEnd(i + 1)

\* snprintf(buf, sizeof(buf), "server-burst-%d", i) and the send of its result.
BurstSendArgs(i) ==
    [isBinary |-> FALSE, buf |-> "buf", len |-> IF i < 10 THEN 14 ELSE 15]

\* The iterations of the burst loop up to the next THREAD_SLEEP: one
\* dataChannelSend of "server-burst-<i>" each, messagesSent++ on success.
BurstChunk(t) ==
    /\ In(t, "burst")
    /\ LET from == native[t].i
           to   == ChunkEnd(from)
           sent == Cardinality({j \in from..to : ~SendFails(native[t].plan, j)})
       IN  /\ Store(native[t].ptr, "messagesSent",
                    Load(native[t].ptr, "messagesSent", 0) + sent)
           /\ native' = IF to + 1 < BURST_MESSAGES
                        THEN [native EXCEPT ![t].i = to + 1,
                                 ![t].out = [label |-> "server-burst", n |-> to + 1],
                                 ![t].acked = native[t].acked + sent,
                                 ![t].args = BurstSendArgs(to)]
                        ELSE [Finished(t, [label |-> "server-burst", n |-> to + 1],
                                       BurstSendArgs(to))
                                 EXCEPT ![t].acked = native[t].acked + sent]
    /\ Frame

\* onDataChannelMessageBurst: what it sends for a message of len bytes.  No
\* dataChannelOnMessage call binds it (ServerChannelOnMessage is the echo).
OnDataChannelMessageBurst(len) ==
    IF len >= BURST_TRIGGER_LEN THEN [label |-> "server-msg", n |-> BURST_MESSAGES]
    ELSE NoOut

\* The callback returns to the transport.  The threads being interchangeable,
\* the callbacks still running are kept on the first ones.
Return(t) ==
    /\ native[t].pc = "ret"
    /\ native' = IF t = 1 /\ native[2].pc # "idle"
                 THEN [native EXCEPT ![1] = native[2], ![2] = IdleNative]
                 ELSE [native EXCEPT ![t] = IdleNative]
    /\ UNCHANGED <<session, pcs, channels, http, nReq, nCb>>

----------------------------------------------------------------------------
(* Specifications *)

HttpBegin(h) ==
    \/ \E param \in TestParams, parse \in ParseOutcomes : OfferBegin(h, param, parse)
    \/ HandleReset(h)
    \/ HandleResults(h)

HttpStep(h) ==
    \/ \E ok \in BOOLEAN : OfferCreate(h, ok)
    \/ \E fails \in SUBSET (1..MULTI_CHANNELS) : OfferConfigure(h, fails)
    \/ \E ok \in BOOLEAN : OfferSetRemote(h, ok)
    \/ \E ok \in BOOLEAN : OfferSetLocal(h, ok)
    \/ OfferWaitDone(h)
    \/ OfferWaitTimeout(h)
    \/ OfferAfterWait(h)
    \/ \E ok \in BOOLEAN : OfferCreateAnswer(h, ok)
    \/ \E ok \in BOOLEAN : OfferSerialize(h, ok)

IceStep ==
    \/ \E p \in PcIds, isNull \in BOOLEAN : OnIceCandidate(p, isNull)
    \/ \E p \in PcIds, s \in NewStates : OnConnectionStateChange(p, s)

NativeStep(t) ==
    \/ \E p \in PcIds, name \in RemoteNames : OnDataChannel(t, p, name)
    \/ OnDataChannelMark(t)
    \/ \E m \in Messages : OnDataChannelMessageEcho(t, m.len, m.isBinary)
    \/ \E g \in StaleValues : EchoWriteReceived(t, g)
    \/ \E ok \in BOOLEAN, g \in StaleValues : EchoSend(t, ok, g)
    \/ WriteSent(t)
    \/ OnServerChannelOpen(t)
    \/ \E plan \in BurstPlans, ok \in BOOLEAN, g \in StaleValues :
          ServerOpenMark(t, plan, ok, g)
    \/ BurstChunk(t)

\* The HTTP layer as the design describes it: one request in flight.
Next ==
    \/ \E h \in SerialThreads : HttpBegin(h) \/ HttpStep(h) \/ HttpReturn(h)
    \/ IceStep
    \/ \E t \in NativeThreads : NativeStep(t) \/ Return(t)

Spec == Init /\ [][Next]_vars

\* The HTTP layer serving /offer and /reset on several threads at once.
OverlapBegin(h) ==
    \/ \E parse \in ParseOutcomes : OfferBegin(h, NoParam, parse)
    \/ HandleReset(h)

NextOverlap ==
    \/ \E h \in HttpThreads : OverlapBegin(h) \/ HttpStep(h) \/ HttpReturn(h)
    \/ IceStep

SpecOverlap == Init /\ [][NextOverlap]_vars

\* Every handler thread keeps running: the calls of handleOffer return, its
\* polling loop sleeps 50 ms at a time and the clock reaches the deadline.
SpecOverlapFair ==
    /\ SpecOverlap
    /\ \A h \in HttpThreads : WF_vars(HttpStep(h) \/ HttpReturn(h))

\* The scenarios: offers naming each test, every server channel opening, no
\* message from the remote peer.
ScenarioParams ==
    {NoParam, "echo", "large-echo", "", "Burst", "burst ",
     "server-creates-dc", "server-creates-unordered",
     "server-creates-maxretransmits", "server-creates-maxlifetime",
     "server-creates-multi", "bidirectional", "server-sends-binary", "burst"}

\* The createDataChannel calls that fail in a scenario run.
ScenarioFailures == {{}, {1}, {2, 4}, 1..MULTI_CHANNELS}

\* The transport thread that delivers the opens.
ScenarioThreads == {1}

ScenarioBegin(h) ==
    \/ \E param \in ScenarioParams : OfferBegin(h, param, "ok")
    \/ HandleReset(h)

ScenarioStep(h) ==
    \/ \E ok \in BOOLEAN : OfferCreate(h, ok)
    \/ \E fails \in ScenarioFailures : OfferConfigure(h, fails)
    \/ \E ok \in BOOLEAN : OfferSetRemote(h, ok)
    \/ \E ok \in BOOLEAN : OfferSetLocal(h, ok)
    \/ OfferWaitDone(h)
    \/ OfferWaitTimeout(h)
    \/ OfferAfterWait(h)
    \/ \E ok \in BOOLEAN : OfferCreateAnswer(h, ok)
    \/ \E ok \in BOOLEAN : OfferSerialize(h, ok)

ScenarioNative(t) ==
    \/ \E p \in PcIds, name \in RemoteNames : OnDataChannel(t, p, name)
    \/ OnDataChannelMark(t)
    \/ OnServerChannelOpenEach(t)
    \/ \E plan \in BurstPlans, ok \in BOOLEAN, g \in StaleValues :
          ServerOpenMark(t, plan, ok, g)
    \/ WriteSent(t)
    \/ BurstChunk(t)

NextScenario ==
    \/ \E h \in SerialThreads : ScenarioBegin(h) \/ ScenarioStep(h) \/ HttpReturn(h)
    \/ \E p \in PcIds : OnIceCandidate(p, TRUE)
    \/ \E t \in ScenarioThreads : ScenarioNative(t) \/ Return(t)

SpecScenario == Init /\ [][NextScenario]_vars

----------------------------------------------------------------------------
(* Properties *)

\* Thread h enters the handler of op in this step.
Enters(h, op) == http[h].pc = "idle" /\ http'[h].pc # "idle" /\ http'[h].op = op

Responded(h, op) == http[h].pc = "responded" /\ http[h].op = op

SessionIdle ==
    /\ pPeerConnection = NULL
    /\ iceGatheringDone = FALSE
    /\ connectionState = "NONE"
    /\ currentTest = ""
    /\ serverChannelCount = 0
    /\ channelStats = <<>>

(* C1: a POST /offer that arrives while the peer-connection handle is       *)
(* non-empty is answered 409 on entry: when it returns every session field  *)
(* (handle, ICE-done flag, connection state, scenario name, server-channel  *)
(* count, ledger) is as the request found it, and the native side (peer     *)
(* connections, channels) is untouched.                                     *)
C1_ConflictLeavesSession ==
    \A h \in SerialThreads :
        (http[h].op = "offer" /\ http[h].busy) =>
            /\ http[h].pc = "responded"
            /\ http[h].at = "entry"
            /\ http[h].res.status = 409
            /\ Snapshot = http[h].before

\* A 409 answered while the ledger of the active session holds entries.
C1_Witness ==
    \E h \in SerialThreads :
        /\ Responded(h, "offer")
        /\ http[h].res.status = 409
        /\ pPeerConnection # NULL
        /\ channelStats # <<>>

(* C2: when handleOffer leaves the ICE-gathering wait and the null          *)
(* candidate has not been reported for the peer connection of this request, *)
(* it answers 504 and the handle is empty when it returns.                  *)
C2_NoNullCandidateGives504 ==
    [][\A h \in SerialThreads :
          (/\ http[h].pc = "waited"
           /\ http'[h].pc # "waited"
           /\ ~pcs[http[h].mypc].nullFired) =>
              /\ http'[h].pc = "responded"
              /\ http'[h].res.status = 504
              /\ pPeerConnection' = NULL]_vars

(* C3: whatever the session state, POST /reset answers {"status":"ok"} and  *)
(* leaves the session idle (handle empty and its peer connection released,  *)
(* ICE-done flag false, connection state NONE, scenario name empty,         *)
(* server-channel count 0, ledger empty); the POST /offer that follows a    *)
(* reset is not answered 409.                                               *)
C3_ResetLeavesIdle ==
    \A h \in SerialThreads :
        /\ Responded(h, "reset") =>
              /\ http[h].res = [status |-> 200, body |-> "ok"]
              /\ SessionIdle
              /\ LivePcs = {}
        /\ (Responded(h, "offer") /\ http[h].afterReset) =>
              http[h].res.status # 409

\* A reset that returns while a callback of the session is still at work on
\* an entry of the ledger.
C3_Witness ==
    \E h \in SerialThreads, t \in NativeThreads :
        /\ Responded(h, "reset")
        /\ native[t].pc \notin {"idle", "ret"}
        /\ statsCap > 0

(* C4: when createPeerConnection, setRemoteDescription, setLocalDescription, *)
(* createAnswer or serializeSessionDescriptionInit fails, handleOffer        *)
(* returns from that stage with a 5xx whose body tells the stage, and the    *)
(* handle is empty and no peer connection is left when it returns.           *)
C4_Stages == {"create", "remote", "local", "answer", "serialize"}

C4_StageOfBody(body) ==
    CASE body = "Failed to create peer connection" -> "create"
      [] body = "Failed to set remote description" -> "remote"
      [] body = "Failed to set local description" -> "local"
      [] body = "Failed to create answer" -> "answer"
      [] body = "Failed to serialize answer" -> "serialize"
      [] OTHER -> ""

C4_FailureStopsHandshake ==
    \A h \in SerialThreads :
        (/\ Responded(h, "offer")
         /\ http[h].at \in C4_Stages
         /\ http[h].res.status # 200) =>
            /\ http[h].res.status \in 500..599
            /\ C4_StageOfBody(http[h].res.body) = http[h].at
            /\ pPeerConnection = NULL
            /\ LivePcs = {}

\* A handshake that failed at its last stage, after the gathering completed.
C4_Witness ==
    \E h \in SerialThreads :
        /\ Responded(h, "offer")
        /\ http[h].res = [status |-> 500, body |-> "Failed to serialize answer"]
        /\ iceGatheringDone
        /\ pPeerConnection = NULL

(* C5: a POST /offer whose body fails SDP deserialization while no peer     *)
(* connection exists is answered 400 in that step; no peer connection and   *)
(* no channel is created, no callback registered, and the scenario name,    *)
(* server-channel count, ICE-done flag and ledger are as before.            *)
C5_BadSdpTouchesNothing ==
    \A h \in SerialThreads :
        (http[h].op = "offer" /\ ~http[h].busy /\ http[h].parse = "badsdp") =>
            /\ http[h].pc = "responded"
            /\ http[h].at = "entry"
            /\ http[h].res.status = 400
            /\ Snapshot = http[h].before

\* A malformed offer that follows a handshake aborted after its gathering.
C5_Witness ==
    \E h \in SerialThreads :
        /\ Responded(h, "offer")
        /\ http[h].parse = "badsdp"
        /\ http[h].res.status = 400
        /\ iceGatheringDone
        /\ currentTest # ""

(* C6: no /results response reports an entry that a message callback has    *)
(* updated in part: messagesReceived incremented with the length not yet    *)
(* added to bytesReceived, or the echo sent with messagesSent not yet       *)
(* incremented.                                                             *)
C6_SnapshotConsistent ==
    \A h \in SerialThreads :
        Responded(h, "results") =>
            \A t \in NativeThreads :
                ~(/\ native[t].cb = "echo"
                  /\ native[t].pc \in {"wrBytes", "wrSent"}
                  /\ Live(native[t].ptr)
                  /\ http[h].res.body.channels[native[t].ptr.idx].name = native[t].chan)

(* C7: the ledger holds at most one entry per channel name, and an entry    *)
(* leaves the ledger only in a step of /reset.                              *)
C7_OneEntryPerName ==
    [][/\ \A j, k \in 1..Len(channelStats') :
              channelStats'[j].name = channelStats'[k].name => j = k
       /\ (\E k \in 1..Len(channelStats) :
              \A j \in 1..Len(channelStats') :
                  channelStats'[j].name # channelStats[k].name)
          => \E h \in SerialThreads : Enters(h, "reset")]_vars

\* Two callbacks at work on the same channel, which has one entry.
C7_Witness ==
    /\ \A t \in NativeThreads : native[t].pc \notin {"idle", "ret"}
    /\ native[1].chan = native[2].chan
    /\ native[1].cb # native[2].cb
    /\ Cardinality({k \in 1..Len(channelStats) :
                       channelStats[k].name = native[1].chan}) = 1

(* C8: between two resets no counter of a ledger entry (messagesReceived,   *)
(* messagesSent, bytesReceived) decreases.                                  *)
C8_CountersMonotonic ==
    [][(\A h \in SerialThreads : ~Enters(h, "reset")) =>
          \A k \in 1..Len(channelStats) :
              /\ k <= Len(channelStats')
              /\ \A f \in {"messagesReceived", "messagesSent", "bytesReceived"} :
                    channelStats'[k][f] >= channelStats[k][f]]_vars

(* C9: at most one peer connection is created and not yet released, also    *)
(* when /offer and /reset requests overlap on separate HTTP threads.        *)
C9_OnePeerConnection == Cardinality(LivePcs) <= 1

(* C10: with test=burst, a message of at least 5 bytes on the server-created *)
(* channel burst-srv makes the server send the 50 messages server-msg-0 ..   *)
(* server-msg-49 on that channel.                                            *)
C10_TriggerSendsFifty ==
    \A t \in NativeThreads :
        (/\ native[t].pc = "ret"
         /\ native[t].cb # "open"
         /\ native[t].chan = "burst-srv"
         /\ native[t].len >= BURST_TRIGGER_LEN
         /\ currentTest = "burst") =>
            native[t].out = OnDataChannelMessageBurst(native[t].len)

(* C11: the resend of the echo callback for an empty message carries one   *)
(* byte (a single zero byte), not an empty payload; for a message of n > 0  *)
(* bytes it carries the n bytes received; the binary flag is the one        *)
(* received.                                                                *)
C11_EmptyEchoedAsOneByte ==
    \A t \in NativeThreads :
        (native[t].pc = "ret" /\ native[t].cb = "echo") =>
            /\ native[t].args.isBinary = native[t].binary
            /\ native[t].len = 0 =>
                  native[t].args.buf = "dummy" /\ native[t].args.len = 1
            /\ native[t].len > 0 =>
                  native[t].args.buf = "pMessage" /\ native[t].args.len = native[t].len

----------------------------------------------------------------------------
(* Scenario properties, checked under SpecScenario *)

EntryNames == {channelStats[k].name : k \in 1..Len(channelStats)}

\* The ledger entries that do not belong to a channel the remote peer opened.
ServerEntryNames == EntryNames \ RemoteNames

MultiNames == {"srv-0", "srv-1", "srv-2", "srv-3", "srv-4"}

\* The server channels of the session's peer connection.
ServerChannels == {c \in channels : c.onOpen /\ c.pc = pPeerConnection}

OpenedNames == {c.name : c \in {d \in ServerChannels : d.isOpen}}

\* No callback is running.
Quiet == \A t \in NativeThreads : native[t].pc = "idle"

(* C12, as stated: once the server channels of a server-creates-multi session
   have all opened and their callbacks have returned, the server-channel
   entries of the ledger are exactly srv-0 .. srv-4. *)
C12_MultiAlwaysFive ==
    (/\ currentTest = "server-creates-multi"
     /\ Connected(pPeerConnection)
     /\ \A c \in ServerChannels : c.isOpen
     /\ Quiet)
        => ServerEntryNames = MultiNames

(* C12, amended: in a server-creates-multi session the server-channel entries
   of the ledger are those of the channels srv-i that were created and have
   opened, and no other; they are exactly srv-0 .. srv-4 when all five
   creations succeeded and all five channels have opened. *)
C12_MultiEntriesFollowOpens ==
    currentTest = "server-creates-multi" =>
        /\ ServerEntryNames \subseteq MultiNames
        /\ ServerEntryNames = OpenedNames
        /\ (/\ serverChannelCount = MULTI_CHANNELS
            /\ Connected(pPeerConnection)
            /\ \A c \in ServerChannels : c.isOpen)
               => ServerEntryNames = MultiNames

C12_Witness ==
    /\ currentTest = "server-creates-multi"
    /\ serverChannelCount = MULTI_CHANNELS
    /\ Quiet
    /\ ServerEntryNames = MultiNames
    /\ Len(channelStats) = MULTI_CHANNELS

\* The scenarios whose channels are sent data when they open.
SendingScenarios == {"server-creates-dc", "server-sends-binary", "burst"}

\* The ledger differs at most in the opened flag of its entries.
OnlyOpenedChanges ==
    /\ Len(channelStats') = Len(channelStats)
    /\ \A k \in 1..Len(channelStats) :
           [channelStats'[k] EXCEPT !.opened = FALSE] =
           [channelStats[k] EXCEPT !.opened = FALSE]

\* The step of onServerChannelOpen on thread t that follows findOrCreateStats.
OpenMarks(t) == In(t, "wrOpened") /\ native'[t].pc # "wrOpened"

\* The step of handleOffer on thread h that runs configureForTest.
Configures(h, testName) ==
    /\ At(h, "configure") /\ http'[h].pc = "remote"
    /\ http[h].testName = testName

MaxRetransmitsChannel(p) ==
    [pc |-> p, name |-> "maxretransmit-srv",
     init |-> [ordered |-> TRUE, maxRetransmits |-> 3, maxPacketLifeTime |-> EMPTY],
     onOpen |-> TRUE, onMessage |-> "echo", isOpen |-> FALSE, remote |-> FALSE]

(* C13: the open callback of a server channel sends one greeting under
   server-creates-dc, one 1024-byte binary pattern under server-sends-binary,
   starts the burst under burst, and under every other scenario sends nothing
   and changes nothing but the opened flag; configuring
   server-creates-maxretransmits makes one request, and what it creates is
   the single channel maxretransmit-srv, ordered, retransmit limit 3, no
   lifetime limit. *)
C13_OnlyThreeScenariosSendOnOpen ==
    [][/\ \A t \in NativeThreads : OpenMarks(t) =>
             /\ currentTest = "server-creates-dc" =>
                   /\ native'[t].pc = "wrSent"
                   /\ native'[t].out = [label |-> "hello from server", n |-> 1]
                   /\ native'[t].args.len = GREETING_LEN
                   /\ ~native'[t].args.isBinary
             /\ currentTest = "server-sends-binary" =>
                   /\ native'[t].pc = "wrSent"
                   /\ native'[t].out.n = 1
                   /\ native'[t].args.len = PATTERN_LEN
                   /\ native'[t].args.isBinary
             /\ currentTest = "burst" => native'[t].pc = "burst"
             /\ currentTest \notin SendingScenarios =>
                   /\ native'[t].pc = "ret"
                   /\ native'[t].out = NoOut /\ native'[t].args = NoArgs
             /\ OnlyOpenedChanges
       /\ \A h \in HttpThreads :
             Configures(h, "server-creates-maxretransmits") =>
                /\ Len(ScenarioChannels(http[h].testName)) = 1
                /\ channels' \ channels \subseteq
                       {MaxRetransmitsChannel(pPeerConnection)}
                /\ serverChannelCount' = Cardinality(channels' \ channels)
      ]_vars

C13_Witness ==
    /\ currentTest = "server-creates-maxretransmits"
    /\ MaxRetransmitsChannel(pPeerConnection) \notin channels
    /\ [MaxRetransmitsChannel(pPeerConnection) EXCEPT !.isOpen = TRUE] \in channels
    /\ \E t \in NativeThreads :
          /\ native[t].pc = "ret" /\ native[t].cb = "open"
          /\ native[t].chan = "maxretransmit-srv"
          /\ native[t].out = NoOut
    /\ \E k \in 1..Len(channelStats) :
          channelStats[k].name = "maxretransmit-srv" /\ channelStats[k].opened

\* The names configureForTest compares the scenario name with.
RecognizedNames ==
    {"server-creates-dc", "server-creates-unordered",
     "server-creates-maxretransmits", "server-creates-maxlifetime",
     "server-creates-multi", "bidirectional", "server-sends-binary", "burst"}

\* onDataChannel is running for channel c.
BeingAccepted(c) ==
    \E t \in NativeThreads :
        /\ native[t].pc = "wrOpenedDc"
        /\ native[t].chan = c.name /\ native[t].cpc = c.pc

(* C14: while the configured scenario name is none of the eight recognized
   ones (echo, large-echo, the empty string, "Burst", "burst " ...), there is
   no server-created channel and the server-channel count is 0, and every
   channel the remote peer opened is, once onDataChannel has run for it,
   bound to the echo handler. *)
C14_UnrecognizedFallsBackToEcho ==
    currentTest \notin RecognizedNames =>
        /\ serverChannelCount = 0
        /\ ServerChannels = {}
        /\ \A c \in channels :
              (c.remote /\ ~BeingAccepted(c)) => c.onMessage = "echo"

C14_Witness ==
    /\ currentTest = "burst "
    /\ Connected(pPeerConnection)
    /\ serverChannelCount = 0
    /\ Quiet
    /\ \E c \in channels :
          c.pc = pPeerConnection /\ c.remote /\ c.onMessage = "echo"

\* The session with every slot of serverChannels taken.
AtCapacity == [count |-> MAX_TEST_CHANNELS, slots |-> serverChannels, made |-> {}]

(* C15: the server-channel count is always within 0 .. 16, and createChannel
   called with the count at 16 creates nothing, stores nothing and leaves the
   count, whatever the scenario asks for. *)
C15_CountWithinCapacity ==
    /\ serverChannelCount \in 0..MAX_TEST_CHANNELS
    /\ \A n \in RecognizedNames :
          CreateChannels(ScenarioChannels(n), {}, pPeerConnection, 1, AtCapacity)
             = AtCapacity

C15_Witness ==
    /\ serverChannelCount = MULTI_CHANNELS
    /\ Cardinality(ServerChannels) = MULTI_CHANNELS
    /\ \E h \in HttpThreads : http[h].pc = "remote"

----------------------------------------------------------------------------
(* Handshake order *)

\* The steps of handleOffer after the offer is parsed, in program order.
HandshakeOrder ==
    <<"create", "configure", "remote", "local", "wait", "waited", "answer",
      "serialize", "responded">>

StepIndex(pos) == CHOOSE k \in 1..Len(HandshakeOrder) : HandshakeOrder[k] = pos

\* Thread h is between the parsed offer and its response.
InHandshake(h) ==
    http[h].op = "offer" /\ http[h].pc \notin {"idle", "responded"}

\* The server channels that exist after the step and did not before it.
NewServerChannels ==
    {c \in channels' : c.onOpen /\
        ~\E d \in channels : d.pc = c.pc /\ d.name = c.name}

(* C16: a step of an accepted offer leads to the next step of the sequence
   create, configure, remote description, local description, ICE wait, check
   of the wait, answer, serialize, response, or to a failure response; the
   200 response follows the serialization only; a step that does not respond
   leaves the peer connection of the request installed and alive, and the
   gathering started once the local description is set; server channels
   come into being only in the configure step, which precedes the remote
   description. *)
C16_HandshakeInOrder ==
    [][/\ \A h \in HttpThreads :
             (InHandshake(h) /\ http'[h].pc # http[h].pc) =>
                /\ http'[h].pc \in
                       {HandshakeOrder[StepIndex(http[h].pc) + 1], "responded"}
                /\ (http'[h].pc = "responded" /\ http'[h].res.status = 200)
                       => http[h].pc = "serialize"
                /\ http'[h].pc # "responded" =>
                       /\ pPeerConnection' = http'[h].mypc
                       /\ pPeerConnection' # NULL
                       /\ pcs'[pPeerConnection'].live
                /\ http'[h].pc \in {"wait", "waited", "answer", "serialize"}
                       => pcs'[pPeerConnection'].gathering
       /\ NewServerChannels # {} =>
             \E h \in HttpThreads :
                /\ http[h].pc = "configure" /\ http'[h].pc = "remote"
                /\ \A c \in NewServerChannels : c.pc = http[h].mypc
      ]_vars

C16_Witness ==
    \E h \in HttpThreads :
        /\ http[h].pc = "responded" /\ http[h].op = "offer"
        /\ http[h].res.status = 200
        /\ http[h].testName = "server-creates-multi"
        /\ http[h].mypc = pPeerConnection
        /\ Cardinality(ServerChannels) = MULTI_CHANNELS

----------------------------------------------------------------------------
(* Termination *)

(* C17: every offer request a handler thread has taken up is eventually
   responded to: the wait for the ICE gathering ends when the flag is set or
   when the deadline passes, and no other step of the handler waits. *)
C17_OfferEventuallyResponds ==
    \A h \in HttpThreads :
        (http[h].op = "offer" /\ http[h].pc # "idle") ~> (http[h].pc = "responded")

C17_Witness ==
    \E h \in HttpThreads :
        /\ http[h].pc = "responded" /\ http[h].op = "offer"
        /\ http[h].at = "waited"
        /\ http[h].timedOut
        /\ http[h].res.status = 504

----------------------------------------------------------------------------
(* The ICE-done flag across offers *)

(* C18: an offer is answered 200 only when the null candidate has been
   reported for the peer connection this request created. *)
C18_AnswerFollowsOwnNullCandidate ==
    \A h \in SerialThreads :
        (Responded(h, "offer") /\ http[h].res.status = 200)
            => pcs[http[h].mypc].nullFired

----------------------------------------------------------------------------
(* The entry a callback works on *)

\* Callback thread t holds the entry findOrCreateStats returned to it and has
\* mutations of it still to make.
HoldsEntry(t) == native[t].pc \notin {"idle", "ret"}

(* C19: while a callback still has mutations to make, the pointer it got from
   findOrCreateStats refers to an element of the ledger, the entry of its
   channel's name. *)
C19_EntryStaysLive ==
    \A t \in NativeThreads :
        HoldsEntry(t) =>
            /\ Live(native[t].ptr)
            /\ channelStats[native[t].ptr.idx].name = native[t].chan

----------------------------------------------------------------------------
(* The counts of one echo *)

\* Counter f of the ledger entry of a name; 0 when the ledger has none.
CounterOf(stats, name, f) ==
    IF \E k \in 1..Len(stats) : stats[k].name = name
    THEN stats[CHOOSE k \in 1..Len(stats) : stats[k].name = name][f]
    ELSE 0

\* The echo callback on thread t goes from position `from` to one of `to`.
EchoMoves(t, from, to) ==
    /\ In(t, from) /\ native[t].cb = "echo"
    /\ native'[t].pc \in to

\* Counter f of the channel of thread t grows by n in the step.
Adds(t, f, n) ==
    CounterOf(channelStats', native[t].chan, f) =
        CounterOf(channelStats, native[t].chan, f) + n

(* C20: the steps of one echo of a message of n bytes raise messagesReceived
   of the channel's entry by 1 and bytesReceived by n, make one resend, and
   raise messagesSent by 1 after a resend that succeeded; a failed resend
   leaves messagesSent alone and ends the callback. *)
C20_EchoCountsEachMessage ==
    [][\A t \in NativeThreads :
          /\ EchoMoves(t, "wrRecv", {"wrBytes"}) => Adds(t, "messagesReceived", 1)
          /\ EchoMoves(t, "wrBytes", {"wrSent", "ret"}) =>
                /\ Adds(t, "bytesReceived", native[t].len)
                /\ native'[t].out.n = 1
                /\ Adds(t, "messagesSent", 0)
          /\ EchoMoves(t, "wrSent", {"ret"}) =>
                /\ Adds(t, "messagesSent", 1)
                /\ native'[t].out.n = 1
      ]_vars

----------------------------------------------------------------------------
(* messagesSent and the status of the sends *)

\* Callback thread t executes its stats->messagesSent++ and returns.
CountsSend(t) == In(t, "wrSent") /\ native'[t].pc = "ret"

(* C21: messagesSent of an entry counts the sends that returned success: a
   callback whose send (greeting, binary pattern or echo) failed does not
   raise messagesSent of its channel's entry. *)
C21_FailedSendNotCounted ==
    [][\A t \in NativeThreads :
          (CountsSend(t) /\ native[t].acked = 0) =>
              CounterOf(channelStats', native[t].chan, "messagesSent")
                 <= CounterOf(channelStats, native[t].chan, "messagesSent")
      ]_vars

----------------------------------------------------------------------------
(* What configureForTest leaves *)

\* The requests that succeeded, by their place in the scenario, in order.
Succeeded(reqs, failed) ==
    SelectSeq([k \in 1..Len(reqs) |-> k], LAMBDA k : k \notin failed)

\* Thread h has run configureForTest and not yet the call that follows it.
Configured(h) == http[h].op = "offer" /\ http[h].pc = "remote"

(* C22: when configureForTest returns, the server-channel count is the
   number of the scenario's creations that succeeded, whatever it was before
   and whichever creations failed; slot i below the count holds the i-th
   successful creation, in the order of the requests; the channels with the
   open and message callbacks bound are the successful ones and no other. *)
C22_ConfigureIsBestEffort ==
    \A h \in SerialThreads :
        Configured(h) =>
            LET reqs == ScenarioChannels(http[h].testName)
                ok   == Succeeded(reqs, http[h].failed)
            IN  /\ currentTest = http[h].testName
                /\ serverChannelCount = Len(ok)
                /\ \A i \in 1..Len(ok) : serverChannels[i - 1] = reqs[ok[i]].name
                /\ {c.name : c \in ServerChannels} =
                      {reqs[ok[i]].name : i \in 1..Len(ok)}
                /\ \A c \in ServerChannels :
                      c.onOpen /\ c.onMessage = "echo" /\ ~c.isOpen

C22_Witness ==
    \E h \in SerialThreads :
        /\ Configured(h)
        /\ http[h].testName = "server-creates-multi"
        /\ http[h].failed = {2, 4}
        /\ serverChannelCount = 3
        /\ serverChannels[0] = "srv-0" /\ serverChannels[1] = "srv-2"
        /\ serverChannels[2] = "srv-4" /\ serverChannels[3] = "srv-3"

----------------------------------------------------------------------------
(* The burst on open *)

\* The sequence numbers after whose send the burst loop sleeps.
PauseAfter == {10, 20, 30, 40}

\* The sends numbered below i that succeed under a plan.
AckedBelow(plan, i) == Cardinality({j \in 0..(i - 1) : ~SendFails(plan, j)})

\* Thread t is in the burst loop of onServerChannelOpen, about to send i.
InBurst(t) == native[t].pc = "burst"

\* Thread t has left the burst loop.
BurstDone(t) == native[t].pc = "ret" /\ native[t].out.label = "server-burst"

(* C23, amended: under burst the open callback writes the opened flag of its entry
   and then starts the loop at sequence number 0; whenever the loop sleeps
   the numbers 0 .. i-1 have been sent, once each and in order, with i - 1
   one of 10, 20, 30, 40; the sends that failed are passed over; the
   callback ends with the 50 numbers 0 .. 49 sent. *)
C23_BurstSendsFiftyInOrder ==
    [][\A t \in NativeThreads :
          /\ (In(t, "wrOpened") /\ native'[t].pc = "burst") =>
                /\ currentTest = "burst"
                /\ native'[t].i = 0 /\ native'[t].out = NoOut
                /\ OnlyOpenedChanges
                /\ Live(native[t].ptr) =>
                      channelStats'[native[t].ptr.idx].opened
          /\ InBurst(t)' =>
                /\ native'[t].cb = "open"
                /\ native'[t].i = 0 \/ (native'[t].i - 1) \in PauseAfter
                /\ native'[t].out.n = native'[t].i
                /\ native'[t].acked = AckedBelow(native'[t].plan, native'[t].i)
          /\ BurstDone(t)' =>
                /\ native'[t].cb = "open"
                /\ native'[t].out.n = BURST_MESSAGES
                /\ \E plan \in BurstPlans :
                      native'[t].acked = AckedBelow(plan, BURST_MESSAGES)
      ]_vars

(* C23, as stated for the pauses: the loop sleeps after every 10th message,
   so that it resumes with a sequence number that is a multiple of 10. *)
C23_PauseAfterEveryTenth ==
    \A t \in NativeThreads :
        InBurst(t) => native[t].i % BURST_PAUSE_EVERY = 0

C23_Witness ==
    /\ currentTest = "burst"
    /\ \E t \in NativeThreads :
          /\ BurstDone(t)
          /\ native[t].chan = "burst-srv"
          /\ native[t].out.n = BURST_MESSAGES
          /\ native[t].acked = BURST_MESSAGES \div 2
    /\ \E k \in 1..Len(channelStats) :
          /\ channelStats[k].name = "burst-srv" /\ channelStats[k].opened
          /\ channelStats[k].messagesSent = BURST_MESSAGES \div 2

----------------------------------------------------------------------------
(* onIceCandidate and the ICE-done flag *)

\* The peer connections whose first null candidate is reported in the step.
NullCandidateFor == {p \in PcIds : pcs'[p].nullFired /\ ~pcs[p].nullFired}

\* The gathering peer connections the step may be a null candidate of, first
\* or repeated.
NullCandidateOf ==
    {p \in LivePcs : pcs[p].gathering /\ pcs' = [pcs EXCEPT ![p].nullFired = TRUE]}

\* Nothing of the session but the flag, and nothing of the handlers and the
\* callbacks, changes in the step.
OnlyFlagChanges ==
    UNCHANGED <<pPeerConnection, connectionState, serverChannels,
                serverChannelCount, currentTest, channelStats, statsCap,
                channels, http, native>>

(* C24: the ICE-done flag becomes true only in a step of onIceCandidate
   with a null candidate, which sets it and changes no other field of the
   session; a second null candidate gives the same flag as the first and a
   non-null candidate gives the flag it found; the flag goes back to false
   only in /reset. *)
C24_FlagSetByNullCandidateOnly ==
    [][/\ (~iceGatheringDone /\ iceGatheringDone') =>
             NullCandidateOf # {} /\ OnlyFlagChanges
       /\ NullCandidateFor # {} => iceGatheringDone' /\ OnlyFlagChanges
       /\ (iceGatheringDone /\ ~iceGatheringDone') =>
             \E h \in HttpThreads : Enters(h, "reset")
       /\ IceDone(iceGatheringDone, TRUE)
       /\ IceDone(IceDone(iceGatheringDone, TRUE), TRUE)
             = IceDone(iceGatheringDone, TRUE)
       /\ IceDone(iceGatheringDone, FALSE) = iceGatheringDone
      ]_vars

C24_Witness ==
    /\ iceGatheringDone
    /\ pPeerConnection # NULL
    /\ pcs[pPeerConnection].nullFired
    /\ \E h \in HttpThreads : http[h].pc = "wait" /\ http[h].mypc = pPeerConnection

====
